---------------------------- MODULE Spec2Model ----------------------------
(***************************************************************************)
(* A model of convex_to_postgres/converter.py: the conversion of a Convex  *)
(* snapshot export (a directory tree of JSONL tables) into PostgreSQL      *)
(* CREATE TABLE / INSERT statements.                                       *)
(*                                                                         *)
(* Text is modelled as a sequence of one-character strings, so that the    *)
(* regular expressions, substring tests and sorts of the code are computed *)
(* character by character.  A JSON number is carried as sign, whole        *)
(* multiples of 10^12 (t) and an optional fractional half (h): its value   *)
(* is +/-(t * 10^12 + h / 2).  That keeps the 1e12 comparison of the code  *)
(* exact with small integers.                                              *)
(***************************************************************************)
EXTENDS Integers, Sequences, FiniteSets, TLC

VARIABLES
    pc,         \* position of the run
    root,       \* convert_export: the export root directory (set of entries)
    comps,      \* convert_export: the sorted components still to visit
    todo,       \* convert_export: the sorted entries still to visit
    results,    \* convert_export: the result list built so far
    raised,     \* the exception that left the run, or "none"
    tdir,       \* convert_table: the table directory given
    pg_types,   \* convert_table: the resolved schema (ordered dict)
    docs,       \* convert_table: the documents loaded
    result,     \* convert_table: what the call returned or raised
    target,     \* the SQL target the statements are executed against
    run         \* executions of the statement set against the target

vars == <<pc, root, comps, todo, results, raised, tdir, pg_types, docs, result,
          target, run>>

-----------------------------------------------------------------------------
(* Characters *)

UpperSeq == <<"A","B","C","D","E","F","G","H","I","J","K","L","M",
              "N","O","P","Q","R","S","T","U","V","W","X","Y","Z">>
LowerSeq == <<"a","b","c","d","e","f","g","h","i","j","k","l","m",
              "n","o","p","q","r","s","t","u","v","w","x","y","z">>
DigitSeq == <<"0","1","2","3","4","5","6","7","8","9">>

Range(s) == { s[i] : i \in 1..Len(s) }

Upper == Range(UpperSeq)
Lower == Range(LowerSeq)
Digit == Range(DigitSeq)
AlNum == Upper \cup Lower \cup Digit
\* \w and \s of the re module, on the characters the model uses
WordChar == AlNum \cup {"_"}
Space == {" ", "\t", "\n"}

\* Characters in code point order: what str comparison (and so sorted()) uses.
CodePoints == <<"\t", "\n", " ", "\"", "'", ",", ".">> \o DigitSeq \o <<":">>
              \o UpperSeq \o <<"_">> \o LowerSeq \o <<"{", "}">>

Ord(c) == CHOOSE i \in 1..Len(CodePoints) : CodePoints[i] = c

\* str.lower() on one character
LowerChar(c) ==
    IF c \in Upper
    THEN LowerSeq[CHOOSE i \in 1..Len(UpperSeq) : UpperSeq[i] = c]
    ELSE c

RECURSIVE MapLower(_)
MapLower(s) == IF s = <<>> THEN <<>> ELSE <<LowerChar(Head(s))>> \o MapLower(Tail(s))

\* str.startswith / str.endswith / the `in` operator on str
StartsWith(s, p) == Len(p) <= Len(s) /\ SubSeq(s, 1, Len(p)) = p
EndsWith(s, p) == Len(p) <= Len(s) /\ SubSeq(s, Len(s) - Len(p) + 1, Len(s)) = p
Contains(s, p) == \E i \in 0..(Len(s) - Len(p)) : SubSeq(s, i + 1, i + Len(p)) = p

\* s < t for str: lexicographic by code point
RECURSIVE StrLess(_, _)
StrLess(s, t) ==
    IF t = <<>> THEN FALSE
    ELSE IF s = <<>> THEN TRUE
    ELSE IF Head(s) = Head(t) THEN StrLess(Tail(s), Tail(t))
    ELSE Ord(Head(s)) < Ord(Head(t))

-----------------------------------------------------------------------------
(* Constants of the module *)

TEXT == "TEXT"
BIGINT == "BIGINT"
DOUBLE == "DOUBLE PRECISION"
BOOLEANT == "BOOLEAN"
BYTEA == "BYTEA"
JSONB == "JSONB"
VARCHAR50 == "VARCHAR(50)"

PgTypes == {TEXT, BIGINT, DOUBLE, BOOLEANT, BYTEA, JSONB, VARCHAR50}

T_normalfloat64 == <<"n","o","r","m","a","l","f","l","o","a","t","6","4">>
T_normalint64 == <<"n","o","r","m","a","l","i","n","t","6","4">>
T_int64 == <<"i","n","t","6","4">>
T_field_name == <<"f","i","e","l","d","_","n","a","m","e">>
T_boolean == <<"b","o","o","l","e","a","n">>
T_string == <<"s","t","r","i","n","g">>
T_bytes == <<"b","y","t","e","s">>
T_any == <<"a","n","y">>
T_array == <<"a","r","r","a","y">>
T_object == <<"o","b","j","e","c","t">>
T_null == <<"n","u","l","l">>

\* CONVEX_TYPE_MAP.get(type_id, "TEXT")
CONVEX_TYPE_MAP(type_id) ==
    CASE type_id = T_normalfloat64 -> DOUBLE
      [] type_id = T_normalint64 -> BIGINT
      [] type_id = T_int64 -> BIGINT
      [] type_id = T_field_name -> TEXT
      [] type_id = T_boolean -> BOOLEANT
      [] type_id = T_string -> TEXT
      [] type_id = T_bytes -> BYTEA
      [] type_id = T_any -> JSONB
      [] type_id = T_array -> JSONB
      [] type_id = T_object -> JSONB
      [] type_id = T_null -> TEXT
      [] OTHER -> TEXT

TIMESTAMP_HINTS == { <<"_","a","t">>, <<"_","t","i","m","e">>,
                     <<"e","x","p","i","r","e","s">>,
                     <<"t","i","m","e","s","t","a","m","p">> }

\* {20,} in _CONVEX_ID_RE
MinIdLen == 20

\* The 1e12 of infer_pg_type and escape_value, in multiples of 10^12
OneE12 == 1

N_id == <<"_","i","d">>
N_creationTime == <<"_","c","r","e","a","t","i","o","n","T","i","m","e">>
C_id == <<"i","d">>
C_creation_time == <<"c","r","e","a","t","i","o","n","_","t","i","m","e">>

-----------------------------------------------------------------------------
(* JSON values (what json.loads returns) *)

JNull == [k |-> "null", b |-> FALSE, neg |-> FALSE, t |-> 0, h |-> 0, s |-> <<>>]
JBool(b) == [k |-> "bool", b |-> b, neg |-> FALSE, t |-> 0, h |-> 0, s |-> <<>>]
JInt(neg, t) == [k |-> "int", b |-> FALSE, neg |-> neg, t |-> t, h |-> 0, s |-> <<>>]
JFloat(neg, t, h) == [k |-> "float", b |-> FALSE, neg |-> neg, t |-> t, h |-> h, s |-> <<>>]
JStr(s) == [k |-> "str", b |-> FALSE, neg |-> FALSE, t |-> 0, h |-> 0, s |-> s]
\* a dict or a list; s is its json.dumps text
JObj(s) == [k |-> "obj", b |-> FALSE, neg |-> FALSE, t |-> 0, h |-> 0, s |-> s]

\* value > 1e12 for a float
GreaterThan1e12(v) == ~v.neg /\ (v.t > OneE12 \/ (v.t = OneE12 /\ v.h = 1))

\* int(value) for a float: truncation toward zero
IntOf(v) == JInt(v.neg /\ v.t > 0, v.t)

-----------------------------------------------------------------------------
(* Helpers *)

\* Last index of the run of [a-z] that starts at i (i itself is in [a-z])
RECURSIVE LowerRunEnd(_, _)
LowerRunEnd(s, i) ==
    IF i + 1 <= Len(s) /\ s[i + 1] \in Lower THEN LowerRunEnd(s, i + 1) ELSE i

\* re.sub(r"(.)([A-Z][a-z]+)", r"\1_\2", name), scanning from index i
RECURSIVE SubWordBoundary(_, _)
SubWordBoundary(s, i) ==
    IF i > Len(s) THEN <<>>
    ELSE IF /\ i + 2 <= Len(s)
            /\ s[i] # "\n"
            /\ s[i + 1] \in Upper
            /\ s[i + 2] \in Lower
         THEN LET j == LowerRunEnd(s, i + 2)
              IN <<s[i], "_">> \o SubSeq(s, i + 1, j) \o SubWordBoundary(s, j + 1)
         ELSE <<s[i]>> \o SubWordBoundary(s, i + 1)

\* re.sub(r"([a-z0-9])([A-Z])", r"\1_\2", s), scanning from index i
RECURSIVE SubCaseBoundary(_, _)
SubCaseBoundary(s, i) ==
    IF i > Len(s) THEN <<>>
    ELSE IF /\ i + 1 <= Len(s)
            /\ s[i] \in Lower \cup Digit
            /\ s[i + 1] \in Upper
         THEN <<s[i], "_", s[i + 1]>> \o SubCaseBoundary(s, i + 2)
         ELSE <<s[i]>> \o SubCaseBoundary(s, i + 1)

camel_to_snake(name) ==
    MapLower(SubCaseBoundary(SubWordBoundary(name, 1), 1))

\* _CONVEX_ID_RE.match(value): ^[a-zA-Z0-9]{20,}$, where $ also matches
\* before a newline that ends the string
is_convex_id(value) ==
    LET body == IF Len(value) > 0 /\ value[Len(value)] = "\n"
                THEN SubSeq(value, 1, Len(value) - 1)
                ELSE value
    IN Len(body) >= MinIdLen /\ \A i \in 1..Len(body) : body[i] \in AlNum

is_timestamp_field(snake_name) ==
    \E hint \in TIMESTAMP_HINTS : Contains(snake_name, hint)

\* infer_pg_type comparing the magnitude of a float with 1e12
infer_pg_type_abs(field_name, value) ==
    CASE value.k = "bool" -> BOOLEANT
      [] value.k = "int" -> BIGINT
      [] value.k = "float" ->
            IF value.t > OneE12 \/ (value.t = OneE12 /\ value.h = 1)
            THEN BIGINT ELSE DOUBLE
      [] value.k = "str" ->
            IF \/ field_name = N_id
               \/ (EndsWith(field_name, <<"I", "d">>) /\ is_convex_id(value.s))
            THEN VARCHAR50 ELSE TEXT
      [] value.k = "obj" -> JSONB
      [] OTHER -> TEXT

infer_pg_type(field_name, value) ==
    CASE value.k = "bool" -> BOOLEANT
      [] value.k = "int" -> BIGINT
      [] value.k = "float" -> IF GreaterThan1e12(value) THEN BIGINT ELSE DOUBLE
      [] value.k = "str" ->
            IF \/ field_name = N_id
               \/ (EndsWith(field_name, <<"I", "d">>) /\ is_convex_id(value.s))
            THEN VARCHAR50 ELSE TEXT
      [] value.k = "obj" -> JSONB
      [] OTHER -> TEXT

\* value.replace("'", "''")
RECURSIVE DoubleQuotes(_)
DoubleQuotes(s) ==
    IF s = <<>> THEN <<>>
    ELSE (IF Head(s) = "'" THEN <<"'", "'">> ELSE <<Head(s)>>) \o DoubleQuotes(Tail(s))

\* SQL literals: the form of the text escape_value returns and what it holds.
\*   NULL | TRUE/FALSE | an integer in decimal | repr of a float | '...'
Literal(form, v, s) ==
    [form |-> form, b |-> v.b, neg |-> v.neg, t |-> v.t, h |-> v.h, s |-> s]

escape_value(snake_name, value) ==
    CASE value.k = "null" -> Literal("NULL", JNull, <<>>)
      [] value.k = "bool" -> Literal("BOOL", value, <<>>)
      [] value.k = "float" ->
            IF is_timestamp_field(snake_name) \/ GreaterThan1e12(value)
            THEN Literal("INT", IntOf(value), <<>>)
            ELSE Literal("FLOAT", value, <<>>)
      [] value.k = "int" -> Literal("INT", value, <<>>)
      [] value.k = "str" ->
            Literal("QUOTED", JNull, <<"'">> \o DoubleQuotes(value.s) \o <<"'">>)
      [] OTHER ->
            Literal("QUOTED", JNull, <<"'">> \o DoubleQuotes(value.s) \o <<"'">>)

-----------------------------------------------------------------------------
(* Ordered dicts: a sequence of [name, val] items with pairwise distinct     *)
(* names, in insertion order                                                 *)

Item(name, val) == [name |-> name, val |-> val]

Keys(d) == { d[i].name : i \in 1..Len(d) }

\* d[name] = val: a new key is appended, an old one keeps its place
DictSet(d, name, val) ==
    IF name \in Keys(d)
    THEN [i \in 1..Len(d) |-> IF d[i].name = name THEN Item(name, val) ELSE d[i]]
    ELSE Append(d, Item(name, val))

\* d.get(name): the value, or None
DictGet(d, name) ==
    IF name \in Keys(d)
    THEN d[CHOOSE i \in 1..Len(d) : d[i].name = name].val
    ELSE JNull

\* What a call gives: a value, or the exception that left it
Returned(val) == [exc |-> "none", val |-> val]
Raised(exc, val) == [exc |-> exc, val |-> val]

-----------------------------------------------------------------------------
(* Schema parsing *)

\* Index of the first '"' at or after i, 0 when there is none
RECURSIVE NextQuote(_, _)
NextQuote(s, i) ==
    IF i > Len(s) THEN 0
    ELSE IF s[i] = "\"" THEN i
    ELSE NextQuote(s, i + 1)

\* \s* from i: the index of the first character that is not white space
RECURSIVE SkipSpace(_, _)
SkipSpace(s, i) ==
    IF i <= Len(s) /\ s[i] \in Space THEN SkipSpace(s, i + 1) ELSE i

\* [\w]+ from i (s[i] is a word character): the index of its last character
RECURSIVE WordEnd(_, _)
WordEnd(s, i) ==
    IF i + 1 <= Len(s) /\ s[i + 1] \in WordChar THEN WordEnd(s, i + 1) ELSE i

NoMatch == [ok |-> FALSE, name |-> <<>>, quoted |-> FALSE, val |-> <<>>, next |-> 0]

\* The pattern "([^"]+)"\s*:\s*(?:"([^"]*)"|([\w]+)) tried at index i.
\* quoted tells which alternative matched: group 2 (val) or group 3 (val).
SchemaMatchAt(s, i) ==
    IF i > Len(s) \/ s[i] # "\"" THEN NoMatch
    ELSE LET j == NextQuote(s, i + 1)
         IN IF j = 0 \/ j = i + 1 THEN NoMatch
            ELSE LET p == SkipSpace(s, j + 1)
                 IN IF p > Len(s) \/ s[p] # ":" THEN NoMatch
                    ELSE LET q == SkipSpace(s, p + 1)
                         IN IF q > Len(s) THEN NoMatch
                            ELSE IF s[q] = "\""
                            THEN LET r == NextQuote(s, q + 1)
                                 IN IF r = 0 THEN NoMatch
                                    ELSE [ok |-> TRUE,
                                          name |-> SubSeq(s, i + 1, j - 1),
                                          quoted |-> TRUE,
                                          val |-> SubSeq(s, q + 1, r - 1),
                                          next |-> r + 1]
                            ELSE IF s[q] \in WordChar
                            THEN LET e == WordEnd(s, q)
                                 IN [ok |-> TRUE,
                                     name |-> SubSeq(s, i + 1, j - 1),
                                     quoted |-> FALSE,
                                     val |-> SubSeq(s, q, e),
                                     next |-> e + 1]
                            ELSE NoMatch

\* re.finditer: the non-overlapping matches, leftmost first
RECURSIVE SchemaFindIter(_, _)
SchemaFindIter(s, i) ==
    IF i > Len(s) THEN <<>>
    ELSE LET m == SchemaMatchAt(s, i)
         IN IF m.ok THEN <<m>> \o SchemaFindIter(s, m.next)
            ELSE SchemaFindIter(s, i + 1)

\* The loop body of _parse_convex_schema over the matches
RECURSIVE SchemaFields(_, _)
SchemaFields(ms, fields) ==
    IF ms = <<>> THEN fields
    ELSE LET m == Head(ms)
             ty == IF ~m.quoted
                   THEN CONVEX_TYPE_MAP(m.val)
                   ELSE IF m.val # <<>> /\ is_convex_id(m.val) THEN VARCHAR50 ELSE TEXT
         IN SchemaFields(Tail(ms), DictSet(fields, m.name, ty))

\* The try block of _parse_convex_schema.  A schema file is
\*   [exists, json, inner]: json tells what json.loads makes of the text
\*   ("invalid": it raises; "string": the str inner; "other": a value that
\*   is not a str, on which re.finditer raises TypeError).
ParseConvexSchemaTry(schema_file) ==
    CASE schema_file.json = "invalid" -> Raised("JSONDecodeError", <<>>)
      [] schema_file.json = "other" -> Raised("TypeError", <<>>)
      [] OTHER -> Returned(SchemaFields(SchemaFindIter(schema_file.inner, 1), <<>>))

\* _parse_convex_schema without its try/except: the exception leaves the call
parse_convex_schema_uncaught(schema_file) == ParseConvexSchemaTry(schema_file)

\* _parse_convex_schema: except Exception: return {}
parse_convex_schema(schema_file) ==
    LET r == ParseConvexSchemaTry(schema_file)
    IN IF r.exc # "none" THEN Returned(<<>>) ELSE r

\* _infer_schema_from_docs typing a field at its first appearance, null or not
RECURSIVE InferFromDocAtFirstSight(_, _)
InferFromDocAtFirstSight(doc, fields) ==
    IF doc = <<>> THEN fields
    ELSE LET k == Head(doc).name
             v == Head(doc).val
         IN InferFromDocAtFirstSight(Tail(doc),
                IF k \notin Keys(fields)
                THEN DictSet(fields, k, infer_pg_type(k, v))
                ELSE fields)

\* One document of _infer_schema_from_docs: for k, v in doc.items()
RECURSIVE InferFromDoc(_, _)
InferFromDoc(doc, fields) ==
    IF doc = <<>> THEN fields
    ELSE LET k == Head(doc).name
             v == Head(doc).val
         IN InferFromDoc(Tail(doc),
                IF k \notin Keys(fields) /\ v.k # "null"
                THEN DictSet(fields, k, infer_pg_type(k, v))
                ELSE fields)

\* _infer_schema_from_docs over the lines of documents.jsonl.  A line is
\*   [kind, doc]: "blank" (empty after strip), "malformed" (json.loads
\*   raises) or "object" (json.loads gives the ordered dict doc).
RECURSIVE InferLines(_, _)
InferLines(lines, fields) ==
    IF lines = <<>> THEN Returned(fields)
    ELSE LET line == Head(lines)
         IN CASE line.kind = "blank" -> InferLines(Tail(lines), fields)
              [] line.kind = "malformed" -> Raised("JSONDecodeError", <<>>)
              [] OTHER -> InferLines(Tail(lines), InferFromDoc(line.doc, fields))

infer_schema_from_docs(lines) == InferLines(lines, <<>>)

-----------------------------------------------------------------------------
(* Table processing *)

\* class TableResult.  schema_sql is the CREATE TABLE statement, data_sql
\* the INSERT statements (joined by newlines in the code), kept structured:
\*   CREATE TABLE IF NOT EXISTS <table> (<cols>);
\*   INSERT INTO <table> (<cols>) VALUES (<vals>) ON CONFLICT (<on_conflict>) DO NOTHING;
TableResult(name, schema_sql, data_sql, row_count) ==
    [name |-> name, schema_sql |-> schema_sql, data_sql |-> data_sql,
     row_count |-> row_count]

CreateTable(table, cols) ==
    [table |-> table, if_not_exists |-> TRUE, cols |-> cols]

ColDef(name, type, pk) == [name |-> name, type |-> type, primary_key |-> pk]

InsertStmt(table, cols, vals) ==
    [table |-> table, cols |-> cols, vals |-> vals,
     on_conflict |-> C_id, do_nothing |-> TRUE]

\* What convert_table gives when it returns None or raises
NoResult == TableResult(<<>>, CreateTable(<<>>, <<>>), <<>>, 0)

\* A table directory: [docs_exists, lines, schema]; lines are those of
\* documents.jsonl, schema is the generated_schema.jsonl file.
NoSchemaFile == [exists |-> FALSE, json |-> "invalid", inner |-> <<>>]

\* convert_table, "Determine column types".  No handler surrounds the calls:
\* an exception that leaves one of them leaves convert_table.
ResolveSchema(table_dir) ==
    LET parsed == IF table_dir.schema.exists
                  THEN parse_convex_schema(table_dir.schema)
                  ELSE Returned(<<>>)
    IN IF parsed.exc # "none" THEN parsed
       ELSE IF parsed.val = <<>>
       THEN infer_schema_from_docs(table_dir.lines)
       ELSE parsed

\* convert_table, "Load documents"
RECURSIVE LoadDocuments(_)
LoadDocuments(lines) ==
    IF lines = <<>> THEN Returned(<<>>)
    ELSE LET line == Head(lines)
             rest == LoadDocuments(Tail(lines))
         IN CASE line.kind = "blank" -> rest
              [] line.kind = "malformed" -> Raised("JSONDecodeError", <<>>)
              [] OTHER -> IF rest.exc # "none" THEN rest
                          ELSE Returned(<<line.doc>> \o rest.val)

\* ColumnOf without the timestamp override of the column type
ColumnOfDeclaredType(orig, pg_type) ==
    IF orig = N_id THEN ColDef(C_id, VARCHAR50, TRUE)
    ELSE IF orig = N_creationTime THEN ColDef(C_creation_time, BIGINT, FALSE)
    ELSE ColDef(camel_to_snake(orig), pg_type, FALSE)

\* convert_table, "Build column definitions + name map": the column of one
\* item of pg_types
ColumnOf(orig, pg_type) ==
    IF orig = N_id THEN ColDef(C_id, VARCHAR50, TRUE)
    ELSE IF orig = N_creationTime THEN ColDef(C_creation_time, BIGINT, FALSE)
    ELSE LET snake == camel_to_snake(orig)
         IN ColDef(snake, IF is_timestamp_field(snake) THEN BIGINT ELSE pg_type, FALSE)

col_defs(types) == [i \in 1..Len(types) |-> ColumnOf(types[i].name, types[i].val)]

\* col_map: original -> snake_case, in the order of pg_types
col_map(types) ==
    [i \in 1..Len(types) |-> Item(types[i].name, ColumnOf(types[i].name, types[i].val).name)]

\* convert_table, "Data SQL": the value of one column of one document
InsertValue(doc, orig, snake) ==
    LET value == DictGet(doc, orig)
        v == IF value.k = "float" /\ (is_timestamp_field(snake) \/ orig = N_creationTime)
             THEN IntOf(value) ELSE value
    IN escape_value(snake, v)

InsertLine(table_name, cmap, doc) ==
    InsertStmt(table_name,
               [i \in 1..Len(cmap) |-> cmap[i].val],
               [i \in 1..Len(cmap) |-> InsertValue(doc, cmap[i].name, cmap[i].val)])

\* convert_table(table_name, table_dir): status "none" is the None it
\* returns, "raise" an exception leaving it (exc), "ok" a TableResult (val).
Outcome(status, exc, val) == [status |-> status, exc |-> exc, val |-> val]

\* convert_table from "Build column definitions" to the return
BuildResult(table_name, types, documents) ==
    LET cmap == col_map(types)
    IN TableResult(table_name,
                   CreateTable(table_name, col_defs(types)),
                   [i \in 1..Len(documents) |-> InsertLine(table_name, cmap, documents[i])],
                   Len(documents))

convert_table(table_name, table_dir) ==
    IF ~table_dir.docs_exists THEN Outcome("none", "none", NoResult)
    ELSE LET types == ResolveSchema(table_dir)
         IN IF types.exc # "none" THEN Outcome("raise", types.exc, NoResult)
            ELSE IF types.val = <<>> THEN Outcome("none", "none", NoResult)
            ELSE LET loaded == LoadDocuments(table_dir.lines)
                 IN IF loaded.exc # "none" THEN Outcome("raise", loaded.exc, NoResult)
                    ELSE Outcome("ok", "none",
                                 BuildResult(table_name, types.val, loaded.val))

-----------------------------------------------------------------------------
(* The SQL target: one table, keyed by the column its definition marks     *)
(* PRIMARY KEY.  A statement either takes effect or raises an error; the   *)
(* errors are those of the clauses the statements carry: a relation that   *)
(* does not exist (or exists already, without IF NOT EXISTS), a column     *)
(* named twice, an ON CONFLICT target that is not a key of the table, a    *)
(* key that is NULL or (without DO NOTHING) present already.               *)

NoTarget == [exists |-> FALSE, cols |-> <<>>, rows |-> {}]

Distinct(names) == \A i, j \in 1..Len(names) : i # j => names[i] # names[j]

ColNames(cols) == [i \in 1..Len(cols) |-> cols[i].name]

PrimaryKeys(cols) == { cols[i].name : i \in { j \in 1..Len(cols) : cols[j].primary_key } }

\* The value an INSERT gives column name (NULL when it does not list it)
ValueFor(stmt, name) ==
    IF \E i \in 1..Len(stmt.cols) : stmt.cols[i] = name
    THEN stmt.vals[CHOOSE i \in 1..Len(stmt.cols) : stmt.cols[i] = name]
    ELSE Literal("NULL", JNull, <<>>)

\* [err, target]: the target after the statement, and whether it raised
ExecCreate(t, stmt) ==
    IF t.exists
    THEN [err |-> ~stmt.if_not_exists, target |-> t]
    ELSE IF ~Distinct(ColNames(stmt.cols))
         THEN [err |-> TRUE, target |-> t]
         ELSE [err |-> FALSE,
               target |-> [exists |-> TRUE, cols |-> stmt.cols, rows |-> {}]]

ExecInsert(t, stmt) ==
    LET key == ValueFor(stmt, stmt.on_conflict)
        row == [key |-> key, cols |-> stmt.cols, vals |-> stmt.vals]
    IN IF \/ ~t.exists
          \/ ~Distinct(stmt.cols)
          \/ ~(Range(stmt.cols) \subseteq Range(ColNames(t.cols)))
          \/ stmt.on_conflict \notin PrimaryKeys(t.cols)
          \/ key.form = "NULL"
       THEN [err |-> TRUE, target |-> t]
       ELSE IF \E r \in t.rows : r.key = key
            THEN [err |-> ~stmt.do_nothing, target |-> t]
            ELSE [err |-> FALSE, target |-> [t EXCEPT !.rows = @ \cup {row}]]

-----------------------------------------------------------------------------
(* Inputs *)

N_userName == <<"u","s","e","r","N","a","m","e">>
N_user_name == <<"u","s","e","r","_","n","a","m","e">>
N_loginAt == <<"l","o","g","i","n","A","t">>
N_userId == <<"u","s","e","r","I","d">>
N_expires == <<"e","x","p","i","r","e","s">>

IdA == <<"a","b","c","d","1","2","3","4","a","b","c","d","1","2","3","4","a","b","c","d">>
IdB == <<"e","f","g","h","5","6","7","8","e","f","g","h","5","6","7","8","e","f","g","h">>
QuoteStr == <<"O","'","B">>
ObjText == <<"{","\"","k","\"",":"," ","\"","v","'","w","\"","}">>

TableName == <<"t">>

\* Bounds
MaxDocs == 2
MaxUnits == 2

Floats == { JFloat(n, t, h) : n \in BOOLEAN, t \in 0..MaxUnits, h \in 0..1 }

Values == Floats \cup { JNull, JBool(TRUE), JBool(FALSE), JInt(FALSE, 0),
                        JInt(TRUE, MaxUnits), JStr(QuoteStr), JStr(IdA),
                        JObj(ObjText) }

FieldNames == {N_id, N_creationTime, N_userName, N_loginAt, N_userId, N_expires}

BlankLine == [kind |-> "blank", doc |-> <<>>]
MalformedLine == [kind |-> "malformed", doc |-> <<>>]
ObjectLine(doc) == [kind |-> "object", doc |-> doc]

\* Sequences over S of length at most n
SeqsUpTo(S, n) == UNION { [1..k -> S] : k \in 0..n }

TableDir(lines, schema) == [docs_exists |-> TRUE, lines |-> lines, schema |-> schema]
NoDocsDir == [docs_exists |-> FALSE, lines |-> <<>>, schema |-> NoSchemaFile]

\* generated_schema.jsonl files
SchemaString(inner) == [exists |-> TRUE, json |-> "string", inner |-> inner]
InvalidJsonSchema == [exists |-> TRUE, json |-> "invalid", inner |-> <<>>]
NonStringSchema == [exists |-> TRUE, json |-> "other", inner |-> <<>>]

Quoted(s) == <<"\"">> \o s \o <<"\"">>

TypeTokens == { T_normalfloat64, T_normalint64, T_int64, T_field_name, T_boolean,
                T_string, T_bytes, T_any, T_array, T_object, T_null,
                <<"f","l","o","a","t","3","2">> }

QuotedExamples == { Quoted(<<>>), Quoted(IdA), Quoted(<<"x"," ","y">>) }

\* The inner text {"name": rhs}
OneField(name, rhs) == <<"{">> \o Quoted(name) \o <<":", " ">> \o rhs \o <<"}">>

\* {"_id": "<IdA>", "userName": string, "loginAt":normalfloat64}
ThreeFields ==
    <<"{">> \o Quoted(N_id) \o <<":", " ">> \o Quoted(IdA) \o <<",", " ">>
    \o Quoted(N_userName) \o <<":", " ">> \o T_string \o <<",", " ">>
    \o Quoted(N_loginAt) \o <<":">> \o T_normalfloat64 \o <<"}">>

\* Files from which no field is extracted
UnparsableSchemas ==
    { InvalidJsonSchema, NonStringSchema, SchemaString(<<>>),
      SchemaString(<<"{", "}">>),
      SchemaString(<<"{">> \o Quoted(N_id) \o <<":", " ", "{", "}", "}">>) }

ParsableSchemas ==
    { SchemaString(OneField(n, r)) :
        n \in FieldNames \ {N_userId}, r \in TypeTokens \cup QuotedExamples }
    \cup { SchemaString(ThreeFields) }

SchemaFiles == {NoSchemaFile} \cup UnparsableSchemas \cup ParsableSchemas

\* Table directories with every schema file over a few document streams
SchemaLines ==
    { BlankLine, MalformedLine,
      ObjectLine(<<Item(N_id, JStr(IdA))>>),
      ObjectLine(<<Item(N_id, JStr(IdA)), Item(N_loginAt, JStr(QuoteStr))>>),
      ObjectLine(<<Item(N_userName, JStr(QuoteStr))>>),
      ObjectLine(<<Item(N_loginAt, JFloat(FALSE, MaxUnits, 1))>>) }

SchemaDirs ==
    { TableDir(lines, schema) :
        lines \in SeqsUpTo(SchemaLines, MaxDocs), schema \in SchemaFiles }

\* Table directories without a schema file where every document holds the
\* same single field, with every value
SameFieldDirs ==
    { TableDir([i \in 1..Len(vs) |-> ObjectLine(<<Item(f, vs[i])>>)], NoSchemaFile) :
        f \in FieldNames, vs \in SeqsUpTo(Values, MaxDocs) }

\* Table directories without a schema file whose documents hold any of
\* OrderNames in any order, null or not
OrderNames == {N_userName, N_user_name, N_loginAt}
OrderValues == {JNull, JInt(FALSE, 0)}

Injective(s) == \A i, j \in 1..Len(s) : i # j => s[i] # s[j]

OrderDocs ==
    { [i \in 1..Len(names) |-> Item(names[i], vals[i])] :
        <<names, vals>> \in
            { p \in SeqsUpTo(OrderNames, Cardinality(OrderNames))
                      \X SeqsUpTo(OrderValues, Cardinality(OrderNames)) :
                Len(p[1]) = Len(p[2]) /\ Injective(p[1]) } }

OrderDirs ==
    { TableDir(lines, NoSchemaFile) :
        lines \in SeqsUpTo({BlankLine} \cup { ObjectLine(d) : d \in OrderDocs }, MaxDocs) }

TableDirs == {NoDocsDir} \cup SchemaDirs \cup SameFieldDirs \cup OrderDirs

\* Table directories whose statements are executed: documents with and
\* without _id, with equal and different ids
ExecLines ==
    { ObjectLine(<<Item(N_id, JStr(IdA))>>),
      ObjectLine(<<Item(N_id, JStr(IdB))>>),
      ObjectLine(<<Item(N_id, JStr(IdA)), Item(N_userName, JStr(QuoteStr))>>),
      ObjectLine(<<Item(N_userName, JStr(QuoteStr))>>),
      ObjectLine(<<Item(N_userName, JStr(QuoteStr)), Item(N_user_name, JStr(IdA))>>),
      ObjectLine(<<Item(N_id, JNull), Item(N_userName, JStr(QuoteStr))>>) }

ExecDirs ==
    { TableDir(lines, schema) :
        lines \in SeqsUpTo(ExecLines, MaxDocs),
        schema \in { NoSchemaFile, SchemaString(ThreeFields),
                     SchemaString(OneField(N_userName, T_string)) } }

-----------------------------------------------------------------------------
(* convert_table, step by step, and the execution of its statements *)

\* The statement set is executed this many times
Executions == 2

Pending == Outcome("pending", "none", NoResult)

NoRun == [n |-> 0, next |-> 0, errors |-> [i \in 1..Executions |-> 0], rows1 |-> {}]

InitCommon ==
    /\ root = {}
    /\ comps = <<>>
    /\ todo = <<>>
    /\ results = <<>>
    /\ raised = "none"
    /\ pg_types = <<>>
    /\ docs = <<>>
    /\ result = Pending
    /\ target = NoTarget
    /\ run = NoRun

InitTable ==
    /\ InitCommon
    /\ pc = "start"
    /\ tdir \in TableDirs

InitExec ==
    /\ InitCommon
    /\ pc = "start"
    /\ tdir \in ExecDirs

\* docs_file.exists() and "Determine column types"
DetermineColumnTypes ==
    /\ pc = "start"
    /\ LET types == ResolveSchema(tdir)
       IN IF ~tdir.docs_exists
          THEN /\ result' = Outcome("none", "none", NoResult)
               /\ pc' = "returned"
               /\ UNCHANGED pg_types
          ELSE IF types.exc # "none"
          THEN /\ result' = Outcome("raise", types.exc, NoResult)
               /\ pc' = "returned"
               /\ UNCHANGED pg_types
          ELSE IF types.val = <<>>
          THEN /\ result' = Outcome("none", "none", NoResult)
               /\ pc' = "returned"
               /\ UNCHANGED pg_types
          ELSE /\ pg_types' = types.val
               /\ pc' = "typed"
               /\ UNCHANGED result
    /\ UNCHANGED <<root, comps, todo, results, raised, tdir, docs, target, run>>

\* "Load documents"
LoadDocs ==
    /\ pc = "typed"
    /\ LET loaded == LoadDocuments(tdir.lines)
       IN IF loaded.exc # "none"
          THEN /\ result' = Outcome("raise", loaded.exc, NoResult)
               /\ pc' = "returned"
               /\ UNCHANGED docs
          ELSE /\ docs' = loaded.val
               /\ pc' = "loaded"
               /\ UNCHANGED result
    /\ UNCHANGED <<root, comps, todo, results, raised, tdir, pg_types, target, run>>

\* "Build column definitions", "Schema SQL", "Data SQL" and the return
BuildSql ==
    /\ pc = "loaded"
    /\ result' = Outcome("ok", "none", BuildResult(TableName, pg_types, docs))
    /\ pc' = "returned"
    /\ UNCHANGED <<root, comps, todo, results, raised, tdir, pg_types, docs, target, run>>

Executing == pc = "returned" /\ result.status = "ok" /\ run.n < Executions

\* The schema definition is executed first
ExecuteSchema ==
    /\ Executing
    /\ run.next = 0
    /\ LET r == ExecCreate(target, result.val.schema_sql)
       IN /\ target' = r.target
          /\ run' = [run EXCEPT !.next = 1,
                                !.errors[run.n + 1] = @ + (IF r.err THEN 1 ELSE 0)]
    /\ UNCHANGED <<pc, root, comps, todo, results, raised, tdir, pg_types, docs, result>>

\* then the insertion statements, in order
ExecuteInsert ==
    /\ Executing
    /\ run.next \in 1..Len(result.val.data_sql)
    /\ LET r == ExecInsert(target, result.val.data_sql[run.next])
       IN /\ target' = r.target
          /\ run' = [run EXCEPT !.next = @ + 1,
                                !.errors[run.n + 1] = @ + (IF r.err THEN 1 ELSE 0)]
    /\ UNCHANGED <<pc, root, comps, todo, results, raised, tdir, pg_types, docs, result>>

EndExecution ==
    /\ Executing
    /\ run.next = Len(result.val.data_sql) + 1
    /\ run' = [run EXCEPT !.n = @ + 1, !.next = 0,
                          !.rows1 = IF run.n = 0 THEN target.rows ELSE @]
    /\ UNCHANGED <<pc, root, comps, todo, results, raised, tdir, pg_types, docs, result,
                   target>>

NextTable == DetermineColumnTypes \/ LoadDocs \/ BuildSql

NextExec == NextTable \/ ExecuteSchema \/ ExecuteInsert \/ EndExecution

SpecTable == InitTable /\ [][NextTable]_vars

SpecExec == InitExec /\ [][NextExec]_vars

\* The steps compose to convert_table
StepsAgree == pc = "returned" => result = convert_table(TableName, tdir)

-----------------------------------------------------------------------------
(* Properties of convert_table *)

Returned_ok == pc = "returned" /\ result.status = "ok"

SchemaSql == result.val.schema_sql
DataSql == result.val.data_sql

\* A schema file that exists and from which nothing is parsed: not JSON, JSON
\* that is not a string, or a string in which the pattern matches nowhere
Unparsable(schema_file) ==
    /\ schema_file.exists
    /\ \/ schema_file.json \in {"invalid", "other"}
       \/ schema_file.json = "string" /\ SchemaFindIter(schema_file.inner, 1) = <<>>

\* The schema comes from document sampling
Sampled == ~tdir.schema.exists \/ Unparsable(tdir.schema)

WithoutSchema(table_dir) == [table_dir EXCEPT !.schema = NoSchemaFile]

\* C2: with documents.jsonl present and a generated_schema.jsonl that cannot
\* be parsed, convert_table resolves the schema and returns (or raises) exactly
\* as it does for the same directory without generated_schema.jsonl.
C2_UnparsableSchemaIsAbsent ==
    (tdir.docs_exists /\ Unparsable(tdir.schema)) =>
        /\ pc \in {"typed", "loaded"} =>
               Returned(pg_types) = infer_schema_from_docs(tdir.lines)
        /\ pc = "returned" =>
               result = convert_table(TableName, WithoutSchema(tdir))

C2_Witness ==
    /\ Returned_ok
    /\ tdir.schema.exists
    /\ tdir.schema.json = "invalid"
    /\ Len(DataSql) = MaxDocs
    /\ Len(SchemaSql.cols) > 1

\* The timestamp substrings, as the claim lists them
HasTimestampHint(name) ==
    \/ Contains(name, <<"_","a","t">>)
    \/ Contains(name, <<"_","t","i","m","e">>)
    \/ Contains(name, <<"e","x","p","i","r","e","s">>)
    \/ Contains(name, <<"t","i","m","e","s","t","a","m","p">>)

\* C4: in every TableResult, a column whose name contains "_at", "_time",
\* "expires" or "timestamp" has type BIGINT, whatever type the schema
\* resolution gave its field.
C4_TimestampColumnsAreBigint ==
    Returned_ok =>
        \A i \in 1..Len(SchemaSql.cols) :
            HasTimestampHint(SchemaSql.cols[i].name) => SchemaSql.cols[i].type = BIGINT

\* A field resolved to another type (from a declared token) whose column is
\* a timestamp column
C4_Witness ==
    /\ Returned_ok
    /\ tdir.schema.exists
    /\ \E i \in 1..Len(pg_types) :
          /\ pg_types[i].name = N_expires
          /\ pg_types[i].val = BYTEA
          /\ SchemaSql.cols[i].name = N_expires
          /\ SchemaSql.cols[i].type = BIGINT

\* C6: in every TableResult, the ON CONFLICT column of every insertion
\* statement is a column of the schema definition, declared PRIMARY KEY there,
\* and in the statement's column list.
C6_ConflictOnPrimaryKey ==
    Returned_ok =>
        \A i \in 1..Len(DataSql) :
            /\ DataSql[i].on_conflict \in Range(ColNames(SchemaSql.cols))
            /\ DataSql[i].on_conflict \in PrimaryKeys(SchemaSql.cols)
            /\ DataSql[i].on_conflict \in Range(DataSql[i].cols)

\* The names of the items of doc that are not in acc, appended to acc in
\* order; with nonnull, only the items whose value is not null count
RECURSIVE ScanDoc(_, _, _)
ScanDoc(doc, acc, nonnull) ==
    IF doc = <<>> THEN acc
    ELSE ScanDoc(Tail(doc),
                 IF /\ nonnull => Head(doc).val.k # "null"
                    /\ Head(doc).name \notin Range(acc)
                 THEN Append(acc, Head(doc).name)
                 ELSE acc,
                 nonnull)

\* Field names in the order of their first (non-null) appearance in the lines
RECURSIVE AppearanceOrder(_, _, _)
AppearanceOrder(lines, seen, nonnull) ==
    IF lines = <<>> THEN seen
    ELSE AppearanceOrder(Tail(lines), ScanDoc(Head(lines).doc, seen, nonnull), nonnull)

\* The subsequence of s with the elements in S
RECURSIVE Restrict(_, _)
Restrict(s, S) ==
    IF s = <<>> THEN <<>>
    ELSE (IF Head(s) \in S THEN <<Head(s)>> ELSE <<>>) \o Restrict(Tail(s), S)

FieldOrder == [i \in 1..Len(pg_types) |-> pg_types[i].name]

\* The column name of a field
ColumnNameOf(orig) ==
    IF orig = N_id THEN C_id
    ELSE IF orig = N_creationTime THEN C_creation_time
    ELSE camel_to_snake(orig)

ColumnsFollow(order) ==
    Returned_ok =>
        /\ ColNames(SchemaSql.cols) = [i \in 1..Len(order) |-> ColumnNameOf(order[i])]
        /\ \A d \in 1..Len(DataSql) : DataSql[d].cols = ColNames(SchemaSql.cols)

\* C7 as stated: on the sampling path the fields of the resolved schema (and
\* the columns) are in the order in which the field names first appear in the
\* document stream, null or not.
C7_FirstAppearanceOrder ==
    (Sampled /\ (pc \in {"typed", "loaded"} \/ Returned_ok)) =>
        LET order == Restrict(AppearanceOrder(tdir.lines, <<>>, FALSE), Keys(pg_types))
        IN FieldOrder = order /\ ColumnsFollow(order)

\* C7 amended: on the sampling path the fields of the resolved schema (and
\* the columns) are exactly the fields that have a non-null value somewhere,
\* in the order of their first non-null appearance.
C7_FirstNonNullAppearanceOrder ==
    (Sampled /\ (pc \in {"typed", "loaded"} \/ Returned_ok)) =>
        LET order == AppearanceOrder(tdir.lines, <<>>, TRUE)
        IN FieldOrder = order /\ ColumnsFollow(order)

\* A field that is null where it first appears is in the schema, after a
\* field that first appears later
C7_Witness ==
    /\ Sampled
    /\ Returned_ok
    /\ Len(tdir.lines) = MaxDocs
    /\ tdir.lines[1].doc = <<Item(N_userName, JNull), Item(N_loginAt, JInt(FALSE, 0))>>
    /\ FieldOrder = <<N_loginAt, N_userName>>

\* The first non-null value of a field in the document stream
FirstValue(lines, name) ==
    LET holds(l) == \E j \in 1..Len(lines[l].doc) :
                        lines[l].doc[j].name = name /\ lines[l].doc[j].val.k # "null"
        first == CHOOSE l \in 1..Len(lines) :
                        holds(l) /\ \A m \in 1..(l - 1) : ~holds(m)
    IN DictGet(lines[first].doc, name)

\* abs(v) > 1e12 and v > 1e12 for a float v
MagnitudeExceeds1e12(v) == v.t > OneE12 \/ (v.t = OneE12 /\ v.h = 1)
Exceeds1e12(v) == ~v.neg /\ MagnitudeExceeds1e12(v)

\* C8 as stated: a field sampled from a float v gets BIGINT exactly when
\* |v| > 1e12, DOUBLE PRECISION otherwise.
C8_BigintIffMagnitudeExceeds ==
    (Sampled /\ pc = "typed") =>
        \A i \in 1..Len(pg_types) :
            LET v == FirstValue(tdir.lines, pg_types[i].name)
            IN v.k = "float" =>
                   pg_types[i].val = IF MagnitudeExceeds1e12(v) THEN BIGINT ELSE DOUBLE

\* C8 amended: a field sampled from a float v gets BIGINT exactly when
\* v > 1e12, DOUBLE PRECISION otherwise (so also for every negative v).
C8_BigintIffExceeds ==
    (Sampled /\ pc = "typed") =>
        \A i \in 1..Len(pg_types) :
            LET v == FirstValue(tdir.lines, pg_types[i].name)
            IN v.k = "float" =>
                   pg_types[i].val = IF Exceeds1e12(v) THEN BIGINT ELSE DOUBLE

\* A float below -1e12 was sampled and gave DOUBLE PRECISION
C8_Witness ==
    /\ Sampled
    /\ pc = "typed"
    /\ tdir.lines = <<ObjectLine(<<Item(N_userName, JFloat(TRUE, MaxUnits, 0))>>)>>
    /\ pg_types = <<Item(N_userName, DOUBLE)>>

\* C9: in every TableResult, the literal an insertion statement gives a
\* column that the schema definition declares BIGINT is NULL or an integer.
C9_BigintColumnsGetIntegers ==
    Returned_ok =>
        \A d \in 1..Len(DataSql) : \A i \in 1..Len(SchemaSql.cols) :
            SchemaSql.cols[i].type = BIGINT => DataSql[d].vals[i].form \in {"NULL", "INT"}

\* C10: in every TableResult, the column names of the schema definition and
\* of every insertion statement are pairwise distinct.
C10_ColumnNamesDistinct ==
    Returned_ok =>
        /\ Distinct(ColNames(SchemaSql.cols))
        /\ \A d \in 1..Len(DataSql) : Distinct(DataSql[d].cols)

\* C5: executing the schema definition and the insertion statements a second
\* time raises no error and leaves the rows of the first execution.
C5_SecondExecutionChangesNothing ==
    (Returned_ok /\ run.n >= 2) =>
        /\ run.errors[2] = 0
        /\ (run.n = 2 /\ run.next = 0) => target.rows = run.rows1

-----------------------------------------------------------------------------
(* Export directory traversal *)

N_components == <<"_","c","o","m","p","o","n","e","n","t","s">>

\* An export root is a set of entries [path, isdir, table]: path is the
\* sequence of names below the root, table what a directory holds when it is
\* read as a table directory.  A directory also exists when an entry lies
\* below it.
Entry(path, isdir, table) == [path |-> path, isdir |-> isdir, table |-> table]

IsPrefix(p, q) == Len(p) <= Len(q) /\ SubSeq(q, 1, Len(p)) = p
IsProperPrefix(p, q) == Len(p) < Len(q) /\ IsPrefix(p, q)

\* Path.exists(), Path.is_dir()
Exists(fs, p) == \E e \in fs : IsPrefix(p, e.path)
IsDir(fs, p) == \E e \in fs : (e.path = p /\ e.isdir) \/ IsProperPrefix(p, e.path)

TableAt(fs, p) ==
    IF \E e \in fs : e.path = p
    THEN (CHOOSE e \in fs : e.path = p).table
    ELSE NoDocsDir

\* Path.iterdir(): the entries of directory p, in no order
IterDir(fs, p) ==
    { [name |-> n, is_dir |-> IsDir(fs, Append(p, n)), table |-> TableAt(fs, Append(p, n))] :
        n \in { e.path[Len(p) + 1] : e \in { x \in fs : IsProperPrefix(p, x.path) } } }

\* sorted() of the entries of one directory, in descending order
RECURSIVE SortedDescending(_)
SortedDescending(S) ==
    IF S = {} THEN <<>>
    ELSE LET m == CHOOSE x \in S : \A y \in S \ {x} : StrLess(y.name, x.name)
         IN <<m>> \o SortedDescending(S \ {m})

\* sorted() of the entries of one directory: ascending by name
RECURSIVE Sorted(_)
Sorted(S) ==
    IF S = {} THEN <<>>
    ELSE LET m == CHOOSE x \in S : \A y \in S \ {x} : StrLess(x.name, y.name)
         IN <<m>> \o Sorted(S \ {m})

\* _skip: name.startswith(("_", "."))
skip(name) == StartsWith(name, <<"_">>) \/ StartsWith(name, <<".">>)

\* "if r: results.append(r)" for the outcome r of convert_table; an exception
\* that left convert_table leaves the loop with it
Appended(r, res) ==
    CASE r.status = "raise" -> Raised(r.exc, res)
      [] r.status = "ok" -> Returned(Append(res, r.val))
      [] OTHER -> Returned(res)

\* Appended with the exception caught and the table left out
AppendedSwallowing(r, res) ==
    IF r.status = "ok" THEN Returned(Append(res, r.val)) ELSE Returned(res)

\* Visit with a handler around the call of convert_table
VisitSwallowing(entry, res) ==
    AppendedSwallowing(convert_table(entry.name, entry.table), res)

\* One table directory of either loop:
\*   r = convert_table(entry.name, entry); if r: results.append(r)
\* Nothing catches an exception that leaves convert_table.
Visit(entry, res) == Appended(convert_table(entry.name, entry.table), res)

\* The loop goes on with the results r.val, or convert_export is left with
\* the exception r.exc
Continue(r) ==
    IF r.exc # "none"
    THEN /\ raised' = r.exc
         /\ pc' = "raised"
         /\ UNCHANGED results
    ELSE /\ results' = r.val
         /\ UNCHANGED <<pc, raised>>

\* convert_export, "for entry in sorted(export_dir.iterdir())"
ListRoot ==
    /\ pc = "begin"
    /\ todo' = Sorted(IterDir(root, <<>>))
    /\ pc' = "root_loop"
    /\ UNCHANGED <<root, comps, results, raised, tdir, pg_types, docs, result, target, run>>

VisitRootEntry ==
    /\ pc = "root_loop"
    /\ todo # <<>>
    /\ IF Head(todo).is_dir /\ ~skip(Head(todo).name)
       THEN Continue(Visit(Head(todo), results))
       ELSE UNCHANGED <<pc, raised, results>>
    /\ todo' = Tail(todo)
    /\ UNCHANGED <<root, comps, tdir, pg_types, docs, result, target, run>>

\* "if components_dir.exists(): for component in sorted(components_dir.iterdir())"
EnterComponents ==
    /\ pc = "root_loop"
    /\ todo = <<>>
    /\ IF ~Exists(root, <<N_components>>)
       THEN /\ pc' = "done"
            /\ UNCHANGED <<comps, raised>>
       ELSE IF ~IsDir(root, <<N_components>>)
       THEN /\ raised' = "NotADirectoryError"
            /\ pc' = "raised"
            /\ UNCHANGED comps
       ELSE /\ comps' = Sorted(IterDir(root, <<N_components>>))
            /\ pc' = "comp_loop"
            /\ UNCHANGED raised
    /\ UNCHANGED <<root, todo, results, tdir, pg_types, docs, result, target, run>>

\* One component: skipped, or "for table_dir in sorted(component.iterdir())"
NextComponent ==
    /\ pc = "comp_loop"
    /\ comps # <<>>
    /\ LET component == Head(comps)
       IN IF ~component.is_dir \/ skip(component.name)
          THEN UNCHANGED <<pc, todo>>
          ELSE /\ todo' = Sorted(IterDir(root, <<N_components, component.name>>))
               /\ pc' = "table_loop"
    /\ comps' = Tail(comps)
    /\ UNCHANGED <<root, results, raised, tdir, pg_types, docs, result, target, run>>

VisitComponentTable ==
    /\ pc = "table_loop"
    /\ todo # <<>>
    /\ IF Head(todo).is_dir /\ ~skip(Head(todo).name)
       THEN Continue(Visit(Head(todo), results))
       ELSE UNCHANGED <<pc, raised, results>>
    /\ todo' = Tail(todo)
    /\ UNCHANGED <<root, comps, tdir, pg_types, docs, result, target, run>>

EndComponent ==
    /\ pc = "table_loop"
    /\ todo = <<>>
    /\ pc' = "comp_loop"
    /\ UNCHANGED <<root, comps, todo, results, raised, tdir, pg_types, docs, result,
                   target, run>>

\* "return results" after the last component
ReturnResults ==
    /\ pc = "comp_loop"
    /\ comps = <<>>
    /\ pc' = "done"
    /\ UNCHANGED <<root, comps, todo, results, raised, tdir, pg_types, docs, result,
                   target, run>>

(* Export roots *)

\* Bound: the number of entries of an export root
MaxNodes == 3

RootNames == { <<"B">>, <<"a">>, <<"_","x">>, <<".","h">> }
ComponentNames == { <<"a","u","d">>, <<"p","a","y">>, <<"_","c">> }
ComponentTableNames == { <<"a","c","c">>, <<"i","n","v">>, <<".","t">> }

GoodLine == ObjectLine(<<Item(N_id, JStr(IdA)), Item(N_userName, JStr(QuoteStr))>>)

\* documents.jsonl with blank lines only
EmptySchemaDir == TableDir(<<BlankLine>>, NoSchemaFile)
GoodDir == TableDir(<<GoodLine>>, NoSchemaFile)
\* a malformed line, the schema sampled / taken from the schema description
MalformedSampledDir == TableDir(<<GoodLine, MalformedLine>>, NoSchemaFile)
MalformedDeclaredDir == TableDir(<<MalformedLine>>, SchemaString(ThreeFields))

RootTableDirs ==
    { NoDocsDir, EmptySchemaDir, GoodDir, MalformedSampledDir, MalformedDeclaredDir }
ComponentTableDirs == { NoDocsDir, GoodDir, MalformedDeclaredDir }

Universe ==
    { Entry(<<n>>, TRUE, t) : n \in RootNames, t \in RootTableDirs }
    \cup { Entry(<<n>>, FALSE, NoDocsDir) : n \in RootNames }
    \cup { Entry(<<N_components>>, d, NoDocsDir) : d \in BOOLEAN }
    \cup { Entry(<<N_components, c>>, d, NoDocsDir) : c \in ComponentNames, d \in BOOLEAN }
    \cup { Entry(<<N_components, c, n>>, TRUE, t) :
             c \in ComponentNames, n \in ComponentTableNames, t \in ComponentTableDirs }
    \cup { Entry(<<N_components, c, n>>, FALSE, NoDocsDir) :
             c \in ComponentNames, n \in ComponentTableNames }

\* The subsets of S with at most n elements
RECURSIVE SubsetsUpTo(_, _)
SubsetsUpTo(S, n) ==
    IF n = 0 THEN {{}}
    ELSE LET smaller == SubsetsUpTo(S, n - 1)
         IN smaller \cup { T \cup {x} : T \in smaller, x \in S }

\* No path twice, nothing below a file
Consistent(fs) ==
    \A e1, e2 \in fs :
        e1 # e2 => /\ e1.path # e2.path
                   /\ IsProperPrefix(e1.path, e2.path) => e1.isdir

ExportRoots == { fs \in SubsetsUpTo(Universe, MaxNodes) : Consistent(fs) }

Init ==
    /\ pc = "begin"
    /\ root \in ExportRoots
    /\ comps = <<>>
    /\ todo = <<>>
    /\ results = <<>>
    /\ raised = "none"
    /\ tdir = NoDocsDir
    /\ pg_types = <<>>
    /\ docs = <<>>
    /\ result = Pending
    /\ target = NoTarget
    /\ run = NoRun

Next ==
    \/ ListRoot
    \/ VisitRootEntry
    \/ EnterComponents
    \/ NextComponent
    \/ VisitComponentTable
    \/ EndComponent
    \/ ReturnResults

Spec == Init /\ [][Next]_vars

-----------------------------------------------------------------------------
(* Properties of convert_export *)

Excluded(name) == Len(name) > 0 /\ name[1] \in {"_", "."}

\* The table directories convert_export is to convert: [component, name,
\* table], with component <<>> for a root-level directory
RootTables(fs) ==
    { [component |-> <<>>, name |-> e.path[1], table |-> e.table] :
        e \in { x \in fs : Len(x.path) = 1 /\ x.isdir /\ ~Excluded(x.path[1]) } }

ComponentTables(fs) ==
    { [component |-> e.path[2], name |-> e.path[3], table |-> e.table] :
        e \in { x \in fs : /\ Len(x.path) = 3
                           /\ x.path[1] = N_components
                           /\ x.isdir
                           /\ ~Excluded(x.path[2])
                           /\ ~Excluded(x.path[3]) } }

Tables(fs) == RootTables(fs) \cup ComponentTables(fs)

\* Root-level tables by name, then component tables by component and name
Before(a, b) ==
    \/ a.component = <<>> /\ b.component # <<>>
    \/ a.component = <<>> /\ b.component = <<>> /\ StrLess(a.name, b.name)
    \/ /\ a.component # <<>>
       /\ b.component # <<>>
       /\ \/ StrLess(a.component, b.component)
          \/ a.component = b.component /\ StrLess(a.name, b.name)

\* The tables in the order of Before
InOrder(S) ==
    [i \in 1..Cardinality(S) |->
        CHOOSE a \in S : Cardinality({ b \in S : Before(b, a) }) = i - 1]

Kept(r) == IF r.status = "ok" THEN <<r.val>> ELSE <<>>

\* The TableResults of the tables of seq, in order, a table without result
\* left out
RECURSIVE ResultsOf(_)
ResultsOf(seq) ==
    IF seq = <<>> THEN <<>>
    ELSE Kept(convert_table(Head(seq).name, Head(seq).table)) \o ResultsOf(Tail(seq))

Raises(a) == convert_table(a.name, a.table).status = "raise"
NoResultFor(a) == convert_table(a.name, a.table).status = "none"

\* C1: when convert_export returns, the list holds the TableResults of the
\* root-level directories not beginning with "_" or ".", by name, then those
\* of the non-excluded table directories of the non-excluded components, by
\* component and name, each under the table directory's own name; a table
\* without result is left out and nothing else changes; convert_export is
\* left with an exception only when convert_table raises for one of the
\* tables or _components is not a directory.
C1_ResultsInOrder ==
    /\ pc = "done" => results = ResultsOf(InOrder(Tables(root)))
    /\ pc = "raised" =>
           \/ \E a \in Tables(root) : Raises(a)
           \/ Exists(root, <<N_components>>) /\ ~IsDir(root, <<N_components>>)

\* Two root-level tables returned in name order ("B" before "a") after a
\* third table without result was left out
C1_Witness ==
    /\ pc = "done"
    /\ Len(results) = 2
    /\ results[1].name = <<"B">>
    /\ results[2].name = <<"a">>
    /\ \E a \in Tables(root) : NoResultFor(a)

HasMalformedLine(table_dir) ==
    \E i \in 1..Len(table_dir.lines) : table_dir.lines[i].kind = "malformed"

Malformed(fs) == { a \in Tables(fs) : a.table.docs_exists /\ HasMalformedLine(a.table) }

ParseError(r) == r.status = "raise" /\ r.exc = "JSONDecodeError"

\* C3: convert_table raises a parse error for every table whose
\* documents.jsonl holds a malformed line, with the schema from the schema
\* description or from sampling; convert_export returns no list when there is
\* such a table, and the parse error is what leaves it.
C3_MalformedLineRaises ==
    /\ \A a \in Malformed(root) : ParseError(convert_table(a.name, a.table))
    /\ pc = "done" => Malformed(root) = {}
    /\ (pc = "raised" /\ raised = "JSONDecodeError") => Malformed(root) # {}
    /\ (pc = "raised" /\ Malformed(root) # {}) => raised = "JSONDecodeError"

\* convert_export was left with the parse error of a component table whose
\* schema came from the schema description, after a root-level table was
\* converted
C3_Witness ==
    /\ pc = "raised"
    /\ raised = "JSONDecodeError"
    /\ Len(results) = 1
    /\ \E a \in Malformed(root) : a.component # <<>> /\ a.table.schema.exists

=============================================================================
